---- MODULE Spec2Model ----
(***************************************************************************)
(* A model of the bf-rust interpreter: the textual optimizer               *)
(* (bf_optimizer.rs), the parser with bracket resolution and run-length    *)
(* compression (bf_parser.rs) and the tape machine (bf_machine.rs).        *)
(*                                                                         *)
(* Characters are one-character strings, a source text is a sequence of    *)
(* them.  Token indices, jump targets, the cursor and the program counter  *)
(* are 0-based as in the Rust code; TLA+ sequences are 1-based, so the     *)
(* element at Rust index i of a sequence s is s[i + 1].                    *)
(***************************************************************************)
EXTENDS Integers, Sequences, FiniteSets, TLC

VARIABLES
    code,          \* the source text handed to the optimizer / parser
    parsed,        \* result of BfParser::parse(code), or NotParsed
    compressed,    \* result of BfParser::parse_compress(code), or NotParsed
    optimized,     \* BfCodeOptimizer::optimize(code), or NotOptimized
    reoptimized,   \* BfCodeOptimizer::optimize(optimized), or NotOptimized
    machine,       \* machine id -> BfMachine {cursor, memory, input, output}
    state,         \* machine id -> BfState of the run in progress + its result
    turn,          \* the machine whose run loop executes next
    runs           \* number of run calls started so far on the machines

vars == <<code, parsed, compressed, optimized, reoptimized, machine, state, turn, runs>>

(***************************************************************************)
(* Bounds of the model.                                                    *)
(***************************************************************************)
\* longest source text given to the parser and the optimizer alone
MaxCodeLen == 4
\* longest source text that is parsed and then executed
MaxProgLen == 3

\* largest tape length of the machines
MaxMemory == 3
\* number of bytes the writer of a machine accepts before a write fails
OutputRoom == 2

\* longest token sequence handed to run directly
MaxTokens == 2
\* run calls made one after another on one machine
MaxRuns == 2
\* tokens after the opening LoopStart in the loop specification
MaxLoopLen == 5

\* the largest usize of the model (the width of usize scaled down)
UsizeMax == 15

\* u8 arithmetic is modulo 2^8
ByteMod == 256

\* the value of a result variable before its operation has run
NotParsed    == [err |-> -1, ok |-> FALSE, tokens |-> <<>>]
NotOptimized == <<"not optimized">>

\* the eight command characters and one character that is no command
Commands == {"+", "-", "<", ">", "[", "]", ",", "."}
Alphabet == Commands \cup {"x"}

RECURSIVE SeqsUpTo(_, _)
SeqsUpTo(S, n) ==
    IF n = 0 THEN {<<>>}
    ELSE LET shorter == SeqsUpTo(S, n - 1)
         IN  shorter \cup {Append(s, c) : s \in {t \in shorter : Len(t) = n - 1}, c \in S}

(***************************************************************************)
(* bf_token.rs                                                             *)
(***************************************************************************)
\* a token is its variant, its number (count or jump target) and, for
\* NotCommand, its character
NotCommand(ch)   == [ch |-> ch, kind |-> "NotCommand",  val |-> 0]
Increment(n)     == [ch |-> "", kind |-> "Increment",   val |-> n]
Decrement(n)     == [ch |-> "", kind |-> "Decrement",   val |-> n]
CursorLeft(n)    == [ch |-> "", kind |-> "CursorLeft",  val |-> n]
CursorRight(n)   == [ch |-> "", kind |-> "CursorRight", val |-> n]
LoopStart(t)     == [ch |-> "", kind |-> "LoopStart",   val |-> t]
LoopEnd(t)       == [ch |-> "", kind |-> "LoopEnd",     val |-> t]
PrintChar        == [ch |-> "", kind |-> "PrintChar",   val |-> 0]
InputChar        == [ch |-> "", kind |-> "InputChar",   val |-> 0]

(***************************************************************************)
(* bf_optimizer.rs                                                         *)
(***************************************************************************)
remove_not_command(text) == SelectSeq(text, LAMBDA c : c \in Commands)

\* result.chars().last().unwrap_or('\0')
last_char(result) == IF Len(result) = 0 THEN "NUL" ELSE result[Len(result)]

\* Faulty variant of is_relative_pair: "+" is taken for the inverse of "+".
is_relative_pair_typo(ch, last) ==
    \/ ch = "+" /\ last = "+"
    \/ ch = "-" /\ last = "+"
    \/ ch = ">" /\ last = "<"
    \/ ch = "<" /\ last = ">"

\* the condition of the `if` in the loop of remove_unnecessary_relative_operate
is_relative_pair(ch, last) ==
    \/ ch = "+" /\ last = "-"
    \/ ch = "-" /\ last = "+"
    \/ ch = ">" /\ last = "<"
    \/ ch = "<" /\ last = ">"

\* the loop `for ch in code.chars()`, from character k (1-based) on, with the
\* output buffer `result` built so far
RECURSIVE relative_scan(_, _, _)
relative_scan(text, k, result) ==
    IF k > Len(text) THEN result
    ELSE IF is_relative_pair(text[k], last_char(result))
         THEN relative_scan(text, k + 1, SubSeq(result, 1, Len(result) - 1))
         ELSE relative_scan(text, k + 1, Append(result, text[k]))

remove_unnecessary_relative_operate(text) == relative_scan(text, 1, <<>>)

\* Faulty variant of optimize: the two steps in the wrong order.
optimize_cancel_first(text) ==
    remove_not_command(remove_unnecessary_relative_operate(text))

optimize(text) == remove_unnecessary_relative_operate(remove_not_command(text))

(***************************************************************************)
(* bf_parser.rs                                                            *)
(***************************************************************************)
Ok(toks)           == [err |-> 0,   ok |-> TRUE,  tokens |-> toks]
LoopNotClosed(idx) == [err |-> idx, ok |-> FALSE, tokens |-> <<>>]

\* Faulty variant of char_token: the arms of '<' and '>' are exchanged.
char_token_swapped(ch) ==
    CASE ch = "+" -> Increment(1)
      [] ch = "-" -> Decrement(1)
      [] ch = "<" -> CursorRight(1)
      [] ch = ">" -> CursorLeft(1)
      [] ch = "[" -> LoopStart(0)
      [] ch = "]" -> LoopEnd(0)
      [] ch = "," -> InputChar
      [] ch = "." -> PrintChar
      [] OTHER    -> NotCommand(ch)

\* the arm of `match ch` in parse
char_token(ch) ==
    CASE ch = "+" -> Increment(1)
      [] ch = "-" -> Decrement(1)
      [] ch = "<" -> CursorLeft(1)
      [] ch = ">" -> CursorRight(1)
      [] ch = "[" -> LoopStart(0)
      [] ch = "]" -> LoopEnd(0)
      [] ch = "," -> InputChar
      [] ch = "." -> PrintChar
      [] OTHER    -> NotCommand(ch)

\* one pass of the body of `for index in 0..tokens.len()` in loop_matching.
\* r holds the tokens, the stack loop_record (top = last element) and, once
\* `?` has returned from the function, the error it returned.
loop_matching_step(r, index) ==
    IF r.failed THEN r
    ELSE LET token == r.tokens[index + 1] IN
         CASE token.kind = "LoopStart" ->
                [r EXCEPT !.loop_record = Append(@, index)]
           [] token.kind = "LoopEnd" ->
                IF r.loop_record = <<>>
                THEN [r EXCEPT !.failed = TRUE, !.err = index]
                ELSE LET match_start == r.loop_record[Len(r.loop_record)]
                     IN  [r EXCEPT !.loop_record = SubSeq(@, 1, Len(@) - 1),
                                   !.tokens[match_start + 1] = LoopStart(index),
                                   !.tokens[index + 1] = LoopEnd(match_start)]
           [] OTHER -> r

\* the passes for index = from, .., to - 1, one after the other (the range is
\* halved only to keep the evaluation of a long loop shallow)
RECURSIVE loop_matching_scan(_, _, _)
loop_matching_scan(r, from, to) ==
    IF from >= to THEN r
    ELSE IF to = from + 1 THEN loop_matching_step(r, from)
    ELSE LET mid  == (from + to) \div 2
             left == loop_matching_scan(r, from, mid)
         IN  IF left.failed THEN left ELSE loop_matching_scan(left, mid, to)

\* Faulty variants of loop_matching, for testing that the properties below
\* tell them from the code:
\*   "fifo"      pairs a LoopEnd with the oldest pending LoopStart,
\*   "lenient"   skips a LoopEnd that finds no pending LoopStart,
\*   "outermost" reports the outermost pending LoopStart at the end.
RECURSIVE faulty_matching_scan(_, _, _, _)
faulty_matching_scan(tokens, index, loop_record, fault) ==
    IF index >= Len(tokens)
    THEN IF loop_record # <<>>
         THEN LoopNotClosed(IF fault = "outermost" THEN loop_record[1]
                            ELSE loop_record[Len(loop_record)])
         ELSE Ok(tokens)
    ELSE LET token == tokens[index + 1] IN
         CASE token.kind = "LoopStart" ->
                faulty_matching_scan(tokens, index + 1, Append(loop_record, index), fault)
           [] token.kind = "LoopEnd" ->
                IF loop_record = <<>>
                THEN IF fault = "lenient"
                     THEN faulty_matching_scan(tokens, index + 1, loop_record, fault)
                     ELSE LoopNotClosed(index)
                ELSE LET top  == IF fault = "fifo" THEN 1 ELSE Len(loop_record)
                         match_start == loop_record[top]
                         rest == IF fault = "fifo" THEN Tail(loop_record)
                                 ELSE SubSeq(loop_record, 1, Len(loop_record) - 1)
                         rewritten == [tokens EXCEPT ![match_start + 1] = LoopStart(index),
                                                     ![index + 1] = LoopEnd(match_start)]
                     IN  faulty_matching_scan(rewritten, index + 1, rest, fault)
           [] OTHER -> faulty_matching_scan(tokens, index + 1, loop_record, fault)

loop_matching_fifo(tokens)      == faulty_matching_scan(tokens, 0, <<>>, "fifo")
loop_matching_lenient(tokens)   == faulty_matching_scan(tokens, 0, <<>>, "lenient")
loop_matching_outermost(tokens) == faulty_matching_scan(tokens, 0, <<>>, "outermost")

loop_matching(tokens) ==
    LET r == loop_matching_scan([err |-> 0, failed |-> FALSE,
                                 loop_record |-> <<>>, tokens |-> tokens],
                                0, Len(tokens))
    IN  IF r.failed THEN LoopNotClosed(r.err)
        ELSE IF r.loop_record # <<>>
             THEN LoopNotClosed(r.loop_record[Len(r.loop_record)])
             ELSE Ok(r.tokens)

\* Faulty variant of parse: the tokens are returned without bracket resolution.
parse_unresolved(text) == Ok([i \in 1..Len(text) |-> char_token(text[i])])

parse(text) == loop_matching([i \in 1..Len(text) |-> char_token(text[i])])

\* Faulty variant of as_u8: a value that does not fit is clamped to u8::MAX.
as_u8_clamped(n) == IF n >= ByteMod THEN ByteMod - 1 ELSE n

\* `sum as u8` / `-sum as u8`: the low 8 bits of a positive i32
as_u8(n) == n % ByteMod

\* Faulty variant of flush_sum: the sign of a negative sum is lost.
flush_sum_unsigned(tokens, sum) ==
    IF sum > 0 THEN Append(tokens, Increment(as_u8(sum)))
    ELSE IF sum < 0 THEN Append(tokens, Increment(as_u8(-sum)))
    ELSE tokens

\* the flush of the running sum: lines 42-49 and 70-76
flush_sum(tokens, sum) ==
    IF sum > 0 THEN Append(tokens, Increment(as_u8(sum)))
    ELSE IF sum < 0 THEN Append(tokens, Decrement(as_u8(-sum)))
    ELSE tokens

\* Faulty variant of flush_move: the two directions are exchanged.
flush_move_swapped(tokens, cursor_move) ==
    IF cursor_move > 0 THEN Append(tokens, CursorLeft(cursor_move))
    ELSE IF cursor_move < 0 THEN Append(tokens, CursorRight(-cursor_move))
    ELSE tokens

\* the flush of the running displacement: lines 50-59 and 78-84
flush_move(tokens, cursor_move) ==
    IF cursor_move > 0 THEN Append(tokens, CursorRight(cursor_move))
    ELSE IF cursor_move < 0 THEN Append(tokens, CursorLeft(-cursor_move))
    ELSE tokens

\* Faulty variant of compress_step: a NotCommand token is pushed without the
\* running sum and displacement being flushed first.
compress_step_no_flush(uncompress_tokens, c) ==
    LET token   == uncompress_tokens[c.next]
        is_sum  == token.kind \in {"Increment", "Decrement", "NotCommand"}
        is_move == token.kind \in {"CursorLeft", "CursorRight", "NotCommand"}
        tokens1 == IF ~is_sum THEN flush_sum(c.tokens, c.sum) ELSE c.tokens
        sum1    == IF ~is_sum THEN 0 ELSE c.sum
        tokens2 == IF ~is_move THEN flush_move(tokens1, c.cursor_move) ELSE tokens1
        move2   == IF ~is_move THEN 0 ELSE c.cursor_move
        after   == c.next + 1
    IN  CASE token.kind = "Increment"   ->
               [cursor_move |-> move2, next |-> after, sum |-> sum1 + 1, tokens |-> tokens2]
          [] token.kind = "Decrement"   ->
               [cursor_move |-> move2, next |-> after, sum |-> sum1 - 1, tokens |-> tokens2]
          [] token.kind = "CursorLeft"  ->
               [cursor_move |-> move2 - 1, next |-> after, sum |-> sum1, tokens |-> tokens2]
          [] token.kind = "CursorRight" ->
               [cursor_move |-> move2 + 1, next |-> after, sum |-> sum1, tokens |-> tokens2]
          [] OTHER ->
               [cursor_move |-> move2, next |-> after, sum |-> sum1,
                tokens |-> Append(tokens2, token)]

\* one pass of the body of `for token in uncompress_tokens`; c holds the
\* position of the iterator (next, 1-based), the tokens pushed so far, sum
\* and cursor_move
compress_step(uncompress_tokens, c) ==
    LET token   == uncompress_tokens[c.next]
        is_sum  == token.kind \in {"Increment", "Decrement"}
        is_move == token.kind \in {"CursorLeft", "CursorRight"}
        tokens1 == IF ~is_sum THEN flush_sum(c.tokens, c.sum) ELSE c.tokens
        sum1    == IF ~is_sum THEN 0 ELSE c.sum
        tokens2 == IF ~is_move THEN flush_move(tokens1, c.cursor_move) ELSE tokens1
        move2   == IF ~is_move THEN 0 ELSE c.cursor_move
        after   == c.next + 1
    IN  CASE token.kind = "Increment"   ->
               [cursor_move |-> move2, next |-> after, sum |-> sum1 + 1, tokens |-> tokens2]
          [] token.kind = "Decrement"   ->
               [cursor_move |-> move2, next |-> after, sum |-> sum1 - 1, tokens |-> tokens2]
          [] token.kind = "CursorLeft"  ->
               [cursor_move |-> move2 - 1, next |-> after, sum |-> sum1, tokens |-> tokens2]
          [] token.kind = "CursorRight" ->
               [cursor_move |-> move2 + 1, next |-> after, sum |-> sum1, tokens |-> tokens2]
          [] OTHER ->
               [cursor_move |-> move2, next |-> after, sum |-> sum1,
                tokens |-> Append(tokens2, token)]

\* the passes for the elements c.next, .., to of uncompress_tokens, one after
\* the other (the range is halved only to keep the evaluation of a long loop
\* shallow)
RECURSIVE compress_scan(_, _, _)
compress_scan(uncompress_tokens, c, to) ==
    IF c.next > to THEN c
    ELSE IF c.next = to THEN compress_step(uncompress_tokens, c)
    ELSE compress_scan(uncompress_tokens,
                       compress_scan(uncompress_tokens, c, (c.next + to) \div 2),
                       to)

\* Faulty variant of parse_compress: the brackets are not matched again on
\* the compressed sequence, whose loop tokens keep the indices parse gave.
parse_compress_stale(text) ==
    LET uncompress == parse(text)
    IN  IF ~uncompress.ok THEN uncompress
        ELSE LET c == compress_scan(uncompress.tokens,
                                    [cursor_move |-> 0, next |-> 1, sum |-> 0, tokens |-> <<>>],
                                    Len(uncompress.tokens))
             IN  Ok(flush_move(flush_sum(c.tokens, c.sum), c.cursor_move))

\* Faulty variant of parse_compress: the characters are mapped to tokens
\* without `parse(code)?`, so that the brackets are first matched on the
\* compressed sequence.
parse_compress_late(text) ==
    LET uncompress_tokens == [i \in 1..Len(text) |-> char_token(text[i])]
        c == compress_scan(uncompress_tokens,
                           [cursor_move |-> 0, next |-> 1, sum |-> 0, tokens |-> <<>>],
                           Len(uncompress_tokens))
    IN  loop_matching(flush_move(flush_sum(c.tokens, c.sum), c.cursor_move))

parse_compress(text) ==
    LET uncompress == parse(text)
    IN  IF ~uncompress.ok THEN uncompress
        ELSE LET c == compress_scan(uncompress.tokens,
                                    [cursor_move |-> 0, next |-> 1, sum |-> 0, tokens |-> <<>>],
                                    Len(uncompress.tokens))
             IN  loop_matching(flush_move(flush_sum(c.tokens, c.sum), c.cursor_move))

(***************************************************************************)
(* bf_machine.rs                                                           *)
(***************************************************************************)
\* usize arithmetic.  A result is a set of possible values: Panicked stands
\* for a panic.  An overflowing + or - panics in a build with overflow checks
\* and wraps modulo UsizeMax + 1 in a build without; % by zero always panics.
Panicked == -1

usize_add(a, b) ==
    IF a + b <= UsizeMax THEN {a + b} ELSE {Panicked, (a + b) % (UsizeMax + 1)}

usize_sub(a, b) ==
    IF a >= b THEN {a - b} ELSE {Panicked, (a - b) % (UsizeMax + 1)}

usize_rem(a, b) ==
    IF b = 0 THEN {Panicked} ELSE {a % b}

\* op ("+", "-" or "%") applied to every pair of values of two earlier
\* results; a panic in an operand is a panic of the whole expression
Lift(op, A, B) ==
    UNION {IF a = Panicked \/ b = Panicked THEN {Panicked}
           ELSE IF op = "+" THEN usize_add(a, b)
           ELSE IF op = "-" THEN usize_sub(a, b)
           ELSE usize_rem(a, b) : a \in A, b \in B}

wrapped_cursor(cursor, sign, offset, bound) ==
    IF sign
    THEN IF offset > cursor
         THEN \* (bound - (offset % bound) + cursor) % bound
              Lift("%",
                   Lift("+",
                        Lift("-", {bound}, usize_rem(offset, bound)),
                        {cursor}),
                   {bound})
         ELSE \* (cursor - offset) % bound
              Lift("%", usize_sub(cursor, offset), {bound})
    ELSE \* (cursor + offset) % bound
         Lift("%", usize_add(cursor, offset), {bound})

\* Faulty variant of wrapping_add: u8::saturating_add.
saturating_add(a, b) == IF a + b >= ByteMod THEN ByteMod - 1 ELSE a + b

\* u8::wrapping_add / u8::wrapping_sub
wrapping_add(a, b) == (a + b) % ByteMod
wrapping_sub(a, b) == (a - b) % ByteMod

\* A writer (W: Write): the bytes it holds, the number of further bytes it
\* accepts, and what its `write` returns once it accepts no more: an error
\* (refuses) or Ok(0), a write of no bytes (as `&mut [u8]` does when full).
Writer(written, room, refuses) ==
    [refuses |-> refuses, room |-> room, written |-> written]

\* BfMachine::new.  `input` is the bytes the reader still holds, `output` the
\* writer, whose state is kept in the fields output, room and refuses.
new(memory_size, input, output) ==
    [cursor  |-> 0,
     input   |-> input,
     memory  |-> [i \in 1..memory_size |-> 0],
     output  |-> output.written,
     refuses |-> output.refuses,
     room    |-> output.room]

\* the BfState built at the start of run, and the result run has returned
\* ("Running" while it is in its loop)
BfState(commands) ==
    [commands        |-> commands,
     loop_stack      |-> <<>>,
     program_counter |-> 0,
     result          |-> "Running",
     skip_flag       |-> FALSE,
     skip_loop_count |-> 0]

NoRun == [BfState(<<>>) EXCEPT !.result = "Idle"]

\* run returns `how`: its BfState is dropped, and of its fields only the
\* program counter survives, in the error value LoopNotClosed(program_counter)
Finished(st, how) ==
    [NoRun EXCEPT !.result = how,
                  !.program_counter = IF how = "LoopNotClosed" THEN st.program_counter ELSE 0]

Advance(st)      == [st EXCEPT !.program_counter = @ + 1]
InBounds(m)      == m.cursor < Len(m.memory)
Cell(m)          == m.memory[m.cursor + 1]
\* Faulty variant of SetCell: the byte is stored in the first cell.
SetCellFirst(m, byte) == [m EXCEPT !.memory[1] = byte]
SetCell(m, byte) == [m EXCEPT !.memory[m.cursor + 1] = byte]
Outcome(m, st)   == [machine |-> m, state |-> st]

\* the arm of `match state.commands[state.program_counter]` for a cursor move
move_arm(m, st, sign, val) ==
    {IF c = Panicked
     THEN Outcome(m, Finished(st, "Panic"))
     ELSE Outcome([m EXCEPT !.cursor = c], Advance(st))
       : c \in wrapped_cursor(m.cursor, sign, val, Len(m.memory))}

\* the arm for LoopStart
loop_start_arm(m, st) ==
    IF ~InBounds(m)
    THEN {Outcome(m, Finished(st, "Panic"))}
    ELSE LET enter_skip == ~st.skip_flag /\ Cell(m) = 0
             st1 == IF enter_skip
                    THEN [st EXCEPT !.skip_flag = TRUE,
                                    !.skip_loop_count = Len(st.loop_stack)]
                    ELSE st
             st2 == [st1 EXCEPT !.loop_stack = Append(@, st.program_counter)]
         IN  {Outcome(m, Advance(st2))}

\* Faulty variant of loop_end_arm: the first LoopEnd met ends the skipping.
loop_end_arm_inner(m, st) ==
    IF st.loop_stack = <<>>
    THEN {Outcome(m, Finished(st, "LoopNotClosed"))}
    ELSE LET pc     == st.loop_stack[Len(st.loop_stack)]
             popped == [st EXCEPT !.loop_stack = SubSeq(@, 1, Len(@) - 1)]
         IN  IF st.skip_flag
             THEN {Outcome(m, Advance([popped EXCEPT !.skip_flag = FALSE]))}
             ELSE {Outcome(m, [popped EXCEPT !.program_counter = pc])}

\* Faulty variant of loop_end_arm: the `continue` is missing, so the counter
\* is advanced past the LoopStart it was set to.
loop_end_arm_no_continue(m, st) ==
    IF st.loop_stack = <<>>
    THEN {Outcome(m, Finished(st, "LoopNotClosed"))}
    ELSE LET pc     == st.loop_stack[Len(st.loop_stack)]
             popped == [st EXCEPT !.loop_stack = SubSeq(@, 1, Len(@) - 1)]
         IN  IF st.skip_flag
             THEN {Outcome(m, Advance([popped EXCEPT !.skip_flag =
                                   Len(popped.loop_stack) # popped.skip_loop_count]))}
             ELSE {Outcome(m, Advance([popped EXCEPT !.program_counter = pc]))}

\* Faulty variant of loop_end_arm: a LoopEnd met with an empty loop stack is
\* passed over.
loop_end_arm_lenient(m, st) ==
    IF st.loop_stack = <<>>
    THEN {Outcome(m, Advance(st))}
    ELSE LET pc     == st.loop_stack[Len(st.loop_stack)]
             popped == [st EXCEPT !.loop_stack = SubSeq(@, 1, Len(@) - 1)]
         IN  IF st.skip_flag
             THEN {Outcome(m, Advance([popped EXCEPT !.skip_flag =
                                   Len(popped.loop_stack) # popped.skip_loop_count]))}
             ELSE {Outcome(m, [popped EXCEPT !.program_counter = pc])}

\* the arm for LoopEnd
loop_end_arm(m, st) ==
    IF st.loop_stack = <<>>
    THEN {Outcome(m, Finished(st, "LoopNotClosed"))}
    ELSE LET pc     == st.loop_stack[Len(st.loop_stack)]
             popped == [st EXCEPT !.loop_stack = SubSeq(@, 1, Len(@) - 1)]
         IN  IF st.skip_flag
             THEN {Outcome(m, Advance([popped EXCEPT !.skip_flag =
                                   Len(popped.loop_stack) # popped.skip_loop_count]))}
             ELSE {Outcome(m, [popped EXCEPT !.program_counter = pc])}

\* the arm for PrintChar
print_arm(m, st) ==
    IF ~InBounds(m) THEN {Outcome(m, Finished(st, "Panic"))}
    ELSE IF m.room = 0
         THEN IF m.refuses
              THEN {Outcome(m, Finished(st, "IoError"))}
              ELSE {Outcome(m, Advance(st))}    \* Ok(0): the count is not looked at
    ELSE {Outcome([m EXCEPT !.output = Append(@, Cell(m)), !.room = @ - 1], Advance(st))}

\* Faulty variant of input_arm: `read` in place of `read_exact`, which at end
\* of stream returns Ok(0) and leaves the buffer [0; 1] as it was.
input_arm_read(m, st) ==
    IF ~InBounds(m) THEN {Outcome(m, Finished(st, "Panic"))}
    ELSE IF m.input = <<>> THEN {Outcome(SetCell(m, 0), Advance(st))}
    ELSE {Outcome(SetCell([m EXCEPT !.input = Tail(@)], Head(m.input)), Advance(st))}

\* the arm for InputChar
input_arm(m, st) ==
    IF m.input = <<>> THEN {Outcome(m, Finished(st, "IoError"))}
    ELSE LET taken == [m EXCEPT !.input = Tail(@)]
         IN  IF ~InBounds(m) THEN {Outcome(taken, Finished(st, "Panic"))}
             ELSE {Outcome(SetCell(taken, Head(m.input)), Advance(st))}

\* the arms for Increment and Decrement
increment_arm(m, st, val) ==
    IF ~InBounds(m) THEN {Outcome(m, Finished(st, "Panic"))}
    ELSE {Outcome(SetCell(m, wrapping_add(Cell(m), val)), Advance(st))}

decrement_arm(m, st, val) ==
    IF ~InBounds(m) THEN {Outcome(m, Finished(st, "Panic"))}
    ELSE {Outcome(SetCell(m, wrapping_sub(Cell(m), val)), Advance(st))}

\* Faulty variant of run_entry: run starts from a cleared tape and cursor 0.
run_entry_fresh(m, commands) ==
    Outcome(new(Len(m.memory), m.input, Writer(m.output, m.room, m.refuses)),
            BfState(commands))

\* entry of run(&mut self, commands): a new BfState, the machine as it is
run_entry(m, commands) == Outcome(m, BfState(commands))

\* one pass through `while state.program_counter < state.commands.len()`:
\* the set of (machine, state) pairs it can leave
run_step(m, st) ==
    IF st.program_counter >= Len(st.commands)
    THEN {Outcome(m, Finished(st, "Ok"))}
    ELSE LET token == st.commands[st.program_counter + 1] IN
         CASE token.kind \notin {"LoopStart", "LoopEnd"} /\ st.skip_flag ->
                {Outcome(m, Advance(st))}
           [] token.kind = "NotCommand"  -> {Outcome(m, Advance(st))}
           [] token.kind = "Increment"   -> increment_arm(m, st, token.val)
           [] token.kind = "Decrement"   -> decrement_arm(m, st, token.val)
           [] token.kind = "CursorLeft"  -> move_arm(m, st, TRUE, token.val)
           [] token.kind = "CursorRight" -> move_arm(m, st, FALSE, token.val)
           [] token.kind = "LoopStart"   -> loop_start_arm(m, st)
           [] token.kind = "LoopEnd"     -> loop_end_arm(m, st)
           [] token.kind = "PrintChar"   -> print_arm(m, st)
           [] token.kind = "InputChar"   -> input_arm(m, st)

(***************************************************************************)
(* The machine of the final generation, from its description: it keeps no  *)
(* loop stack and no skipping flag.  A LoopStart on a zero cell sets the    *)
(* counter to the token's target, a LoopEnd on a nonzero cell sets it to   *)
(* the token's target, and either falls through otherwise.  Every other    *)
(* token is executed by the arms of run.                                   *)
(***************************************************************************)
jump_step(m, st) ==
    IF st.program_counter >= Len(st.commands)
    THEN {Outcome(m, Finished(st, "Ok"))}
    ELSE LET token == st.commands[st.program_counter + 1] IN
         CASE token.kind = "LoopStart" ->
                IF ~InBounds(m) THEN {Outcome(m, Finished(st, "Panic"))}
                ELSE IF Cell(m) = 0
                     THEN {Outcome(m, [st EXCEPT !.program_counter = token.val])}
                     ELSE {Outcome(m, Advance(st))}
           [] token.kind = "LoopEnd" ->
                IF ~InBounds(m) THEN {Outcome(m, Finished(st, "Panic"))}
                ELSE IF Cell(m) # 0
                     THEN {Outcome(m, [st EXCEPT !.program_counter = token.val])}
                     ELSE {Outcome(m, Advance(st))}
           [] OTHER -> run_step(m, st)

(***************************************************************************)
(* The parser alone: a source text is drawn, then parsed both ways.        *)
(***************************************************************************)
NoMachines == <<>>

TextInit ==
    /\ code \in SeqsUpTo(Alphabet, MaxCodeLen)
    /\ parsed = NotParsed
    /\ compressed = NotParsed
    /\ optimized = NotOptimized
    /\ reoptimized = NotOptimized
    /\ machine = NoMachines
    /\ state = NoMachines
    /\ turn = "none"
    /\ runs = 0

Parse ==
    /\ parsed = NotParsed
    /\ parsed' = parse(code)
    /\ UNCHANGED <<code, compressed, optimized, reoptimized, machine, state, turn, runs>>

ParseCompress ==
    /\ compressed = NotParsed
    /\ compressed' = parse_compress(code)
    /\ UNCHANGED <<code, parsed, optimized, reoptimized, machine, state, turn, runs>>

ParserNext == Parse \/ ParseCompress

ParserSpec == TextInit /\ [][ParserNext]_vars

(***************************************************************************)
(* Compression: besides the short texts, texts that are one long run of    *)
(* '+' or of '-', of a length around 256, where the running sum no longer  *)
(* fits the u8 count of a token, and the Hello World source of the tests.  *)
(***************************************************************************)
HelloWorld ==
    <<"+", "+", "+", "+", "+", "+", "+", "+", "+", "+", "[", ">", "+", "+",
      "+", "+", "+", "+", "+", ">", "+", "+", "+", "+", "+", "+", "+", "+",
      "+", "+", ">", "+", "+", "+", ">", "+", "<", "<", "<", "<", "-", "]",
      ">", "+", "+", ".", ">", "+", ".", "+", "+", "+", "+", "+", "+", "+",
      ".", ".", "+", "+", "+", ".", ">", "+", "+", ".", "<", "<", "+", "+",
      "+", "+", "+", "+", "+", "+", "+", "+", "+", "+", "+", "+", "+", ".",
      ">", ".", "+", "+", "+", ".", "-", "-", "-", "-", "-", "-", ".", "-",
      "-", "-", "-", "-", "-", "-", "-", ".", ">", "+", ".", ">", ".">>

LongRuns ==
    {[i \in 1..n |-> ch] : n \in (ByteMod - 1)..(ByteMod + 1), ch \in {"+", "-"}}

CompressInit ==
    /\ code \in SeqsUpTo(Alphabet, MaxCodeLen) \cup LongRuns \cup {HelloWorld}
    /\ parsed = NotParsed
    /\ compressed = NotParsed
    /\ optimized = NotOptimized
    /\ reoptimized = NotOptimized
    /\ machine = NoMachines
    /\ state = NoMachines
    /\ turn = "none"
    /\ runs = 0

CompressSpec == CompressInit /\ [][ParserNext]_vars

(***************************************************************************)
(* The optimizer alone: a source text is drawn, optimized, and the result  *)
(* optimized again.                                                        *)
(***************************************************************************)
Optimize ==
    /\ optimized = NotOptimized
    /\ optimized' = optimize(code)
    /\ UNCHANGED <<code, parsed, compressed, reoptimized, machine, state, turn, runs>>

Reoptimize ==
    /\ optimized # NotOptimized
    /\ reoptimized = NotOptimized
    /\ reoptimized' = optimize(optimized)
    /\ UNCHANGED <<code, parsed, compressed, optimized, machine, state, turn, runs>>

OptimizerNext == Optimize \/ Reoptimize

OptimizerSpec == TextInit /\ [][OptimizerNext]_vars

(***************************************************************************)
(* The pipeline: a source text is parsed three ways (parse, parse_compress *)
(* and parse of the optimized text) and each token sequence is run on a    *)
(* machine of its own; the three machines are constructed alike.  The run  *)
(* loops take turns, one pass of the `while` at a time.                    *)
(***************************************************************************)
Pipelines == <<"parse", "parse_compress", "optimize_parse">>

\* the reader contents and first-cell values the machines are set up with
Inputs       == {<<>>, <<1, 0>>}
Writers      == {Writer(<<>>, OutputRoom, refuses) : refuses \in BOOLEAN}
InitialCells == {0, 2, 255}

\* a machine as constructed by new, its first cell then set as the tests do
\* (machine.memory[0] = 10 in clear_cursor_memory)
Prepared(memory_size, input, output, first) ==
    LET m == new(memory_size, input, output)
    IN  [m EXCEPT !.memory = [i \in 1..memory_size |-> IF i = 1 THEN first ELSE 0]]

Ids == {Pipelines[i] : i \in 1..Len(Pipelines)}

PipelineInit ==
    /\ code \in SeqsUpTo(Alphabet, MaxProgLen)
    /\ parsed = NotParsed
    /\ compressed = NotParsed
    /\ optimized = NotOptimized
    /\ reoptimized = NotOptimized
    /\ \E size \in 1..MaxMemory, input \in Inputs, output \in Writers, first \in InitialCells :
           machine = [id \in Ids |-> Prepared(size, input, output, first)]
    /\ state = [id \in Ids |-> NoRun]
    /\ turn = Pipelines[1]
    /\ runs = 0

\* the BfState run starts with, or NoRun when parsing failed
Started(result) == IF result.ok THEN BfState(result.tokens) ELSE NoRun

\* parse the source the three ways and call run on each machine
Load ==
    /\ runs = 0
    /\ parsed' = parse(code)
    /\ compressed' = parse_compress(code)
    /\ optimized' = optimize(code)
    /\ state' = [id \in Ids |->
                   CASE id = "parse"          -> Started(parse(code))
                     [] id = "parse_compress" -> Started(parse_compress(code))
                     [] id = "optimize_parse" -> Started(parse(optimize(code)))]
    /\ runs' = 1
    /\ UNCHANGED <<code, reoptimized, machine, turn>>

Running(st, id) == st[id].result = "Running"

\* the machine to execute after `id`: the next one in Pipelines that is
\* still running, `id` itself when no other is
NextTurn(st, id) ==
    LET n    == Len(Pipelines)
        pos  == CHOOSE i \in 1..n : Pipelines[i] = id
        at(k) == Pipelines[((pos + k - 1) % n) + 1]
    IN  IF id \notin Ids \/ ~\E k \in 1..n : Running(st, at(k))
        THEN id
        ELSE at(CHOOSE k \in 1..n : Running(st, at(k)) /\ \A j \in 1..(k - 1) : ~Running(st, at(j)))

\* one pass of the run loop of the machine whose turn it is
Step ==
    /\ turn \in DOMAIN state
    /\ state[turn].result = "Running"
    /\ \E o \in run_step(machine[turn], state[turn]) :
           /\ machine' = [machine EXCEPT ![turn] = o.machine]
           /\ state' = [state EXCEPT ![turn] = o.state]
    /\ turn' = NextTurn(state', turn)
    /\ UNCHANGED <<code, parsed, compressed, optimized, reoptimized, runs>>

PipelineNext == Load \/ Step

PipelineSpec == PipelineInit /\ [][PipelineNext]_vars

(***************************************************************************)
(* Long runs: the source is one run of '+' or of '-' of a length around    *)
(* 256; it is parsed both ways and the two token sequences are run on      *)
(* machines that start on the same byte, taking turns.                     *)
(***************************************************************************)
Forms == {"parse", "parse_compress"}

LongRunInit ==
    /\ code \in LongRuns
    /\ parsed = NotParsed
    /\ compressed = NotParsed
    /\ optimized = NotOptimized
    /\ reoptimized = NotOptimized
    /\ \E first \in InitialCells :
           machine = [id \in Forms |->
                          Prepared(MaxMemory, <<>>, Writer(<<>>, OutputRoom, TRUE), first)]
    /\ state = [id \in Forms |-> NoRun]
    /\ turn = "parse"
    /\ runs = 0

LoadRun ==
    /\ runs = 0
    /\ parsed' = parse(code)
    /\ compressed' = parse_compress(code)
    /\ state' = [id \in Forms |->
                   IF id = "parse" THEN Started(parse(code))
                                   ELSE Started(parse_compress(code))]
    /\ runs' = 1
    /\ UNCHANGED <<code, optimized, reoptimized, machine, turn>>

\* one pass of the run loop of machine `id`, after which it is the turn of
\* `other` when that one is still running
RunStep(id, other) ==
    /\ turn = id
    /\ state[id].result = "Running"
    /\ \E o \in run_step(machine[id], state[id]) :
           /\ machine' = [machine EXCEPT ![id] = o.machine]
           /\ state' = [state EXCEPT ![id] = o.state]
    /\ turn' = IF state'[other].result = "Running" THEN other ELSE id
    /\ UNCHANGED <<code, parsed, compressed, optimized, reoptimized, runs>>

StepPlain == RunStep("parse", "parse_compress")

StepCompressed == RunStep("parse_compress", "parse")

LongRunNext == LoadRun \/ StepPlain \/ StepCompressed

LongRunSpec == LongRunInit /\ [][LongRunNext]_vars

(***************************************************************************)
(* The machine alone: run is called on a machine with a token sequence     *)
(* that need not come from the parser.  The machine is in a state earlier  *)
(* runs can have left it in: any cursor on the tape, the cell under it     *)
(* zero or not.                                                            *)
(***************************************************************************)
\* the displacements of the move tokens handed to run
Offsets == {0, 1, MaxMemory + 1, UsizeMax}

Tokens ==
    {NotCommand("x"), Increment(1), Decrement(1), LoopStart(0), LoopEnd(0),
     PrintChar, InputChar}
        \cup {CursorLeft(n) : n \in Offsets} \cup {CursorRight(n) : n \in Offsets}

\* a machine of the given size with its cursor at `cursor` and the cell
\* under it holding `byte`
Positioned(memory_size, input, output, cursor, byte) ==
    LET m == new(memory_size, input, output)
    IN  [m EXCEPT !.cursor = cursor,
                  !.memory = [i \in 1..memory_size |-> IF i = cursor + 1 THEN byte ELSE 0]]

NoText ==
    /\ code = <<>>
    /\ parsed = NotParsed
    /\ compressed = NotParsed
    /\ optimized = NotOptimized
    /\ reoptimized = NotOptimized

MachineInit ==
    /\ NoText
    /\ \E size \in 1..MaxMemory, input \in Inputs, output \in Writers, byte \in InitialCells :
           \E cursor \in 0..(size - 1) :
               machine = [id \in {"direct"} |->
                              Positioned(size, input, output, cursor, byte)]
    /\ state = [id \in {"direct"} |-> NoRun]
    /\ turn = "direct"
    /\ runs = 0

\* the call run(commands) on the machine
Run(commands) ==
    /\ runs = 0
    /\ state' = [state EXCEPT ![turn] = BfState(commands)]
    /\ runs' = 1
    /\ UNCHANGED <<code, parsed, compressed, optimized, reoptimized, machine, turn>>

RunTokens ==
    /\ runs = 0
    /\ \E commands \in SeqsUpTo(Tokens, MaxTokens) : Run(commands)

MachineNext == RunTokens \/ Step

MachineSpec == MachineInit /\ [][MachineNext]_vars

(***************************************************************************)
(* One cell: run is called with a single Increment or Decrement token, of  *)
(* any count, on a machine whose cell under the cursor holds any byte.     *)
(***************************************************************************)
Bytes == 0..(ByteMod - 1)

CellInit ==
    /\ NoText
    /\ \E byte \in Bytes, cursor \in 0..(MaxMemory - 1) :
           machine = [id \in {"direct"} |->
                          Positioned(MaxMemory, <<>>, Writer(<<>>, OutputRoom, TRUE), cursor, byte)]
    /\ state = [id \in {"direct"} |-> NoRun]
    /\ turn = "direct"
    /\ runs = 0

RunIncrement == \E n \in Bytes : Run(<<Increment(n)>>)
RunDecrement == \E n \in Bytes : Run(<<Decrement(n)>>)

CellNext == RunIncrement \/ RunDecrement \/ Step

CellSpec == CellInit /\ [][CellNext]_vars

(***************************************************************************)
(* Clearing a cell: the tokens of "[-]" are run on a machine whose cell    *)
(* under the cursor holds any byte; every other cell holds its own index,  *)
(* so that a change to it shows.  run is sequential code: once called it   *)
(* keeps taking steps until it returns, which is the fairness stated.      *)
(***************************************************************************)
Marked(memory_size, cursor, byte) ==
    LET m == new(memory_size, <<>>, Writer(<<>>, OutputRoom, TRUE))
    IN  [m EXCEPT !.cursor = cursor,
                  !.memory = [i \in 1..memory_size |-> IF i = cursor + 1 THEN byte ELSE i]]

ClearInit ==
    /\ NoText
    /\ \E byte \in Bytes, cursor \in 0..(MaxMemory - 1) :
           machine = [id \in {"direct"} |-> Marked(MaxMemory, cursor, byte)]
    /\ state = [id \in {"direct"} |-> NoRun]
    /\ turn = "direct"
    /\ runs = 0

RunClear == Run(parse(<<"[", "-", "]">>).tokens)

ClearNext == RunClear \/ Step

ClearSpec == ClearInit /\ [][ClearNext]_vars /\ WF_vars(ClearNext)

(***************************************************************************)
(* The byte table: the tokens of ".+[.+]" are run on a machine whose cell  *)
(* under the cursor is 0 and whose writer, as the Vec of the test, has     *)
(* room for more than the 256 bytes.                                       *)
(***************************************************************************)
TableInit ==
    /\ NoText
    /\ \E cursor \in 0..(MaxMemory - 1), refuses \in BOOLEAN :
           machine = [id \in {"direct"} |->
                          Positioned(MaxMemory, <<>>,
                                     Writer(<<>>, ByteMod + OutputRoom, refuses), cursor, 0)]
    /\ state = [id \in {"direct"} |-> NoRun]
    /\ turn = "direct"
    /\ runs = 0

RunTable == Run(parse(<<".", "+", "[", ".", "+", "]">>).tokens)

TableNext == RunTable \/ Step

TableSpec == TableInit /\ [][TableNext]_vars /\ WF_vars(TableNext)

(***************************************************************************)
(* Two generations side by side: a source text over the loop characters is *)
(* parsed, plainly or compressed, and its tokens are run on two machines   *)
(* constructed alike, one by run and one by jump_step.  The two take       *)
(* turns, one step at a time, for as long as both are running.  The cells  *)
(* are set by the bytes read, a 1 and then a 0, so that every loop is      *)
(* entered, passed over, repeated and left.                                *)
(***************************************************************************)
LoopChars == {"[", "]", ">", ".", ","}

Generations == {"stack", "jump"}

GenerationsInit ==
    /\ code \in SeqsUpTo(LoopChars, MaxLoopLen)
    /\ parsed = NotParsed
    /\ compressed = NotParsed
    /\ optimized = NotOptimized
    /\ reoptimized = NotOptimized
    /\ \E first \in {0, 1}, output \in Writers :
           machine = [id \in Generations |-> Prepared(MaxMemory, <<1, 0>>, output, first)]
    /\ state = [id \in Generations |-> NoRun]
    /\ turn = "stack"
    /\ runs = 0

LoadParsed ==
    /\ runs = 0
    /\ parsed' = parse(code)
    /\ state' = [id \in Generations |-> Started(parse(code))]
    /\ runs' = 1
    /\ UNCHANGED <<code, compressed, optimized, reoptimized, machine, turn>>

LoadCompressed ==
    /\ runs = 0
    /\ compressed' = parse_compress(code)
    /\ state' = [id \in Generations |-> Started(parse_compress(code))]
    /\ runs' = 1
    /\ UNCHANGED <<code, parsed, optimized, reoptimized, machine, turn>>

\* the other machine when it is still running
Alternate(st, id, other) == IF st[other].result = "Running" THEN other ELSE id

StackStep ==
    /\ turn = "stack"
    /\ state["stack"].result = "Running"
    /\ \E o \in run_step(machine["stack"], state["stack"]) :
           /\ machine' = [machine EXCEPT !["stack"] = o.machine]
           /\ state' = [state EXCEPT !["stack"] = o.state]
    /\ turn' = Alternate(state', "stack", "jump")
    /\ UNCHANGED <<code, parsed, compressed, optimized, reoptimized, runs>>

JumpStep ==
    /\ turn = "jump"
    /\ state["jump"].result = "Running"
    /\ \E o \in jump_step(machine["jump"], state["jump"]) :
           /\ machine' = [machine EXCEPT !["jump"] = o.machine]
           /\ state' = [state EXCEPT !["jump"] = o.state]
    /\ turn' = Alternate(state', "jump", "stack")
    /\ UNCHANGED <<code, parsed, compressed, optimized, reoptimized, runs>>

GenerationsNext == LoadParsed \/ LoadCompressed \/ StackStep \/ JumpStep

GenerationsSpec ==
    /\ GenerationsInit
    /\ [][GenerationsNext]_vars
    /\ WF_vars(StackStep)
    /\ WF_vars(JumpStep)

(***************************************************************************)
(* Construction: new is called with any capacity, zero included, and run   *)
(* is called on the machine it returns.                                    *)
(***************************************************************************)
ConstructInit ==
    /\ NoText
    /\ \E capacity \in 0..MaxMemory, input \in Inputs, output \in Writers :
           machine = [id \in {"direct"} |-> new(capacity, input, output)]
    /\ state = [id \in {"direct"} |-> NoRun]
    /\ turn = "direct"
    /\ runs = 0

ConstructSpec == ConstructInit /\ [][MachineNext]_vars

(***************************************************************************)
(* A batch: a machine is constructed by new, then run is called on it      *)
(* several times, each call after the one before has returned.             *)
(***************************************************************************)
BatchTokens ==
    {Increment(1), Decrement(1), CursorRight(1), LoopStart(0), LoopEnd(0)}

BatchInit ==
    /\ NoText
    /\ machine = [id \in {"direct"} |->
                      new(MaxMemory, <<>>, Writer(<<>>, OutputRoom, TRUE))]
    /\ state = [id \in {"direct"} |-> NoRun]
    /\ turn = "direct"
    /\ runs = 0

Returned == state["direct"].result \in {"Idle", "Ok", "IoError", "LoopNotClosed"}

RunNext ==
    /\ runs < MaxRuns
    /\ Returned
    /\ \E commands \in SeqsUpTo(BatchTokens, MaxTokens) :
           LET o == run_entry(machine["direct"], commands)
           IN  /\ machine' = [machine EXCEPT !["direct"] = o.machine]
               /\ state' = [state EXCEPT !["direct"] = o.state]
    /\ runs' = runs + 1
    /\ UNCHANGED <<code, parsed, compressed, optimized, reoptimized, turn>>

BatchNext == RunNext \/ Step

BatchSpec == BatchInit /\ [][BatchNext]_vars

(***************************************************************************)
(* A batch and its concatenation: `code` holds two source texts with       *)
(* balanced brackets.  On one machine run is called with the tokens of the *)
(* first and, once that has returned Ok, with the tokens of the second; on *)
(* a machine constructed alike run is called once, with the tokens of the  *)
(* two texts joined.                                                       *)
(***************************************************************************)
Batches == {"batch", "joined"}

Joined == code[1] \o code[2]

\* the texts parse accepts
BalancedTexts == {text \in SeqsUpTo(LoopChars, MaxProgLen) : parse(text).ok}

JoinInit ==
    /\ code \in BalancedTexts \X BalancedTexts
    /\ parsed = NotParsed
    /\ compressed = NotParsed
    /\ optimized = NotOptimized
    /\ reoptimized = NotOptimized
    /\ \E first \in {0, 1}, output \in Writers :
           machine = [id \in Batches |-> Prepared(MaxMemory, <<1, 0>>, output, first)]
    /\ state = [id \in Batches |-> NoRun]
    /\ turn = "batch"
    /\ runs = 0

\* the texts are parsed, the second one for the call to come, and run is
\* called for the first time on each machine
RunFirst ==
    /\ runs = 0
    /\ parsed' = parse(code[2])
    /\ LET first == run_entry(machine["batch"], parse(code[1]).tokens)
           whole == run_entry(machine["joined"], parse(Joined).tokens)
       IN  /\ machine' = [id \in Batches |->
                             IF id = "batch" THEN first.machine ELSE whole.machine]
           /\ state' = [id \in Batches |->
                           IF id = "batch" THEN first.state ELSE whole.state]
    /\ runs' = 1
    /\ UNCHANGED <<code, compressed, optimized, reoptimized, turn>>

\* the second call of run on the batch machine, after the first returned Ok
RunSecond ==
    /\ runs = 1
    /\ state["batch"].result = "Ok"
    /\ LET o == run_entry(machine["batch"], parsed.tokens)
       IN  /\ machine' = [machine EXCEPT !["batch"] = o.machine]
           /\ state' = [state EXCEPT !["batch"] = o.state]
    /\ runs' = 2
    /\ turn' = "batch"
    /\ UNCHANGED <<code, parsed, compressed, optimized, reoptimized>>

StepBatch == RunStep("batch", "joined")

StepJoined == RunStep("joined", "batch")

JoinNext == RunFirst \/ RunSecond \/ StepBatch \/ StepJoined

JoinSpec == JoinInit /\ [][JoinNext]_vars

(***************************************************************************)
(* Loops: run is called with a token sequence that opens a loop, followed  *)
(* by any tokens: balanced or not, loops nested or not.  The cell under    *)
(* the cursor is zero or not, and the reader holds a byte.                 *)
(***************************************************************************)
LoopTokens ==
    {LoopStart(0), LoopEnd(0), Decrement(1), CursorRight(1), PrintChar, InputChar}

LoopInit ==
    /\ NoText
    /\ \E byte \in {0, 1}, output \in Writers :
           machine = [id \in {"direct"} |->
                          Positioned(MaxMemory, <<1>>, output, 0, byte)]
    /\ state = [id \in {"direct"} |-> NoRun]
    /\ turn = "direct"
    /\ runs = 0

RunLoop ==
    /\ runs = 0
    /\ \E rest \in SeqsUpTo(LoopTokens, MaxLoopLen) : Run(<<LoopStart(0)>> \o rest)

LoopNext == RunLoop \/ Step

LoopSpec == LoopInit /\ [][LoopNext]_vars

(***************************************************************************)
(* Bracket structure of a source text, defined on the text itself.         *)
(* Positions are 1-based here.                                             *)
(***************************************************************************)
\* number of "[" minus number of "]" among positions a..k
SegDepth(text, a, k) ==
    Cardinality({p \in a..k : text[p] = "["}) - Cardinality({p \in a..k : text[p] = "]"})

\* positions a..b hold a balanced bracket text (the empty range a > b does)
SegBalanced(text, a, b) ==
    /\ \A k \in a..b : SegDepth(text, a, k) >= 0
    /\ SegDepth(text, a, b) = 0

\* the "[" at i and the "]" at j are syntactic partners
Matches(text, i, j) ==
    /\ i < j
    /\ text[i] = "["
    /\ text[j] = "]"
    /\ SegBalanced(text, i + 1, j - 1)

UnmatchedEnd(text, j)   == text[j] = "]" /\ ~\E i \in 1..(j - 1) : Matches(text, i, j)
UnmatchedStart(text, i) == text[i] = "[" /\ ~\E j \in (i + 1)..Len(text) : Matches(text, i, j)

Balanced(text) == SegBalanced(text, 1, Len(text))

Positions(text) == 1..Len(text)

(***************************************************************************)
(* C2: for a source with balanced brackets parse succeeds, every LoopStart *)
(* carries the index of its syntactically matching LoopEnd and every       *)
(* LoopEnd the index of its matching LoopStart, so that                    *)
(* tokens[tokens[i].target].target = i for every loop token i.             *)
(***************************************************************************)
C2_BalancedParseResolvesPartners ==
    (parsed # NotParsed /\ Balanced(code)) =>
        /\ parsed.ok
        /\ Len(parsed.tokens) = Len(code)
        /\ \A i, j \in Positions(code) :
               Matches(code, i, j) =>
                   /\ parsed.tokens[i] = LoopStart(j - 1)
                   /\ parsed.tokens[j] = LoopEnd(i - 1)
        /\ \A i \in Positions(code) :
               parsed.tokens[i].kind \in {"LoopStart", "LoopEnd"} =>
                   /\ parsed.tokens[i].val \in 0..(Len(code) - 1)
                   /\ parsed.tokens[parsed.tokens[i].val + 1].val = i - 1
                   /\ parsed.tokens[parsed.tokens[i].val + 1].kind # parsed.tokens[i].kind

\* a balanced source with a loop nested in a loop has been parsed
C2_Witness ==
    /\ parsed # NotParsed
    /\ Balanced(code)
    /\ \E i, j, k, l \in Positions(code) :
           i < j /\ k < l /\ Matches(code, i, l) /\ Matches(code, j, k)

(***************************************************************************)
(* C3 as stated: for every unmatched "]" at position i with no unmatched   *)
(* "[" before it, parse fails with the unclosed-loop error carrying i.     *)
(***************************************************************************)
C3_EveryUnmatchedEndReported ==
    parsed # NotParsed =>
        \A j \in Positions(code) :
            (UnmatchedEnd(code, j) /\ ~\E i \in 1..(j - 1) : UnmatchedStart(code, i))
                => parsed = LoopNotClosed(j - 1)

(***************************************************************************)
(* C3 amended: when the leftmost unmatched "]" of the source is at         *)
(* position i, parse fails with the unclosed-loop error carrying i,        *)
(* whatever follows it.                                                    *)
(***************************************************************************)
FirstUnmatchedEnd(text, j) ==
    UnmatchedEnd(text, j) /\ ~\E k \in 1..(j - 1) : UnmatchedEnd(text, k)

C3_FirstUnmatchedEndReported ==
    parsed # NotParsed =>
        \A j \in Positions(code) :
            FirstUnmatchedEnd(code, j) => parsed = LoopNotClosed(j - 1)

\* parse has failed on a source whose first unmatched "]" follows a closed
\* loop and is followed by more brackets
C3_Witness ==
    /\ parsed # NotParsed
    /\ \E j \in Positions(code) :
           /\ FirstUnmatchedEnd(code, j)
           /\ \E i \in 1..(j - 1) : code[i] = "["
           /\ \E k \in (j + 1)..Len(code) : code[k] \in {"[", "]"}
           /\ parsed = LoopNotClosed(j - 1)

(***************************************************************************)
(* C4 as stated: for every source with one or more unmatched "[", parse    *)
(* fails with the unclosed-loop error carrying the index of the innermost  *)
(* (last opened, still unclosed) unmatched "[".                            *)
(***************************************************************************)
InnermostUnmatchedStart(text, i) ==
    UnmatchedStart(text, i) /\ ~\E k \in (i + 1)..Len(text) : UnmatchedStart(text, k)

C4_InnermostUnmatchedStartReported ==
    parsed # NotParsed =>
        \A i \in Positions(code) :
            InnermostUnmatchedStart(code, i) => parsed = LoopNotClosed(i - 1)

(***************************************************************************)
(* C4 amended: for every source with one or more unmatched "[" and no      *)
(* unmatched "]", parse fails with the unclosed-loop error carrying the    *)
(* index of the innermost unmatched "[".                                   *)
(***************************************************************************)
C4_InnermostReportedWhenNoStrayEnd ==
    (parsed # NotParsed /\ ~\E j \in Positions(code) : UnmatchedEnd(code, j)) =>
        \A i \in Positions(code) :
            InnermostUnmatchedStart(code, i) => parsed = LoopNotClosed(i - 1)

\* parse has failed on a source with two unclosed loops and a closed one
C4_Witness ==
    /\ parsed # NotParsed
    /\ ~\E j \in Positions(code) : UnmatchedEnd(code, j)
    /\ \E i, k \in Positions(code) :
           /\ i < k
           /\ UnmatchedStart(code, i)
           /\ InnermostUnmatchedStart(code, k)
           /\ \E a, b \in Positions(code) : Matches(code, a, b)
           /\ parsed = LoopNotClosed(k - 1)

(***************************************************************************)
(* C5: optimize is idempotent: optimize(optimize(s)) = optimize(s) for     *)
(* every source text s.                                                    *)
(***************************************************************************)
C5_OptimizeIdempotent ==
    reoptimized # NotOptimized => reoptimized = optimized

\* a text in which a character was stripped and a pair cancelled has been
\* optimized twice
C5_Witness ==
    /\ reoptimized # NotOptimized
    /\ Len(optimized) > 0
    /\ Len(optimized) + 3 <= Len(code)
    /\ \E p \in Positions(code) : code[p] \notin Commands

(***************************************************************************)
(* What a caller observes of a machine once run has returned.              *)
(***************************************************************************)
Done(id) == state[id].result \notin {"Idle", "Running"}

Observed(id) ==
    [cursor |-> machine[id].cursor,
     input  |-> machine[id].input,
     memory |-> machine[id].memory,
     output |-> machine[id].output,
     result |-> state[id].result]

(***************************************************************************)
(* C1: for a source with balanced brackets, running parse(s) and running   *)
(* parse_compress(s) on machines constructed alike leaves identical output *)
(* bytes, tape contents and cursor, and the same Ok/error outcome.         *)
(***************************************************************************)
C1_CompressedRunEquivalent ==
    (Done("parse") /\ Done("parse_compress")) =>
        Observed("parse") = Observed("parse_compress")

\* both runs have returned, the compressed sequence is shorter, and the run
\* wrote output and changed the tape
C1_Witness ==
    /\ Done("parse") /\ Done("parse_compress")
    /\ Len(compressed.tokens) < Len(parsed.tokens)
    /\ \E i \in 1..Len(compressed.tokens) :
           compressed.tokens[i].kind \in {"Decrement", "CursorLeft"}
    /\ machine["parse_compress"].output # <<>>
    /\ state["parse_compress"].result = "Ok"

(***************************************************************************)
(* C6: optimize does not change program semantics: when parse(s) succeeds  *)
(* so does parse(optimize(s)), and running it on a machine constructed     *)
(* alike leaves the same output, tape, cursor and Ok/error outcome as      *)
(* running parse(s).                                                       *)
(***************************************************************************)
C6_OptimizedRunEquivalent ==
    /\ (runs > 0 /\ parsed.ok) => state["optimize_parse"].result # "Idle"
    /\ (Done("parse") /\ Done("optimize_parse")) =>
           Observed("parse") = Observed("optimize_parse")

\* both runs have returned Ok and the optimizer cancelled a pair of inverse
\* commands next to a command it kept
C6_Witness ==
    /\ Done("parse") /\ Done("optimize_parse")
    /\ state["parse"].result = "Ok"
    /\ Len(optimized) < Len(remove_not_command(code))
    /\ Len(optimized) > 0

(***************************************************************************)
(* C7: for a token sequence returned by a successful parse or              *)
(* parse_compress, run returns an error only when an input read or an      *)
(* output write fails; it never returns the LoopNotClosed runtime error.   *)
(***************************************************************************)
\* the token machine id is about to execute
Current(id) == state[id].commands[state[id].program_counter + 1]

C7_ResultsSeen ==
    \A id \in Ids : state[id].result \in {"Idle", "Running", "Ok", "IoError"}

C7_IoErrorFromIo ==
    \A id \in Ids :
        (state[id].result = "Running" /\ state'[id].result = "IoError") =>
            /\ state[id].program_counter < Len(state[id].commands)
            /\ \/ Current(id).kind = "InputChar" /\ machine[id].input = <<>>
               \/ /\ Current(id).kind = "PrintChar"
                  /\ machine[id].room = 0
                  /\ machine[id].refuses

C7_OnlyIoErrors == [][C7_ResultsSeen /\ C7_ResultsSeen' /\ C7_IoErrorFromIo]_vars

\* the runs of the tokens of a source with a loop have each returned an I/O
\* error, from a write the writer refused
C7_Witness ==
    /\ \A id \in Ids : state[id].result = "IoError" /\ machine[id].room = 0
    /\ compressed.ok
    /\ \E i \in Positions(code) : code[i] = "]"

(***************************************************************************)
(* The token the directly driven machine executes in a step: it is         *)
(* executed when the run loop is at it and is not skipping a loop body.    *)
(***************************************************************************)
Executing(kind) ==
    /\ state["direct"].result = "Running"
    /\ state["direct"].program_counter < Len(state["direct"].commands)
    /\ ~state["direct"].skip_flag
    /\ Current("direct").kind = kind

TapeLen == Len(machine["direct"].memory)

(***************************************************************************)
(* C8: in every reachable machine state, with any token sequence           *)
(* (including move counts larger than the tape length), the cursor is in   *)
(* [0, memory_len), and no move step underflows, clamps or panics.         *)
(***************************************************************************)
C8_CursorInBoundsNoPanic ==
    /\ machine["direct"].cursor \in 0..(TapeLen - 1)
    /\ state["direct"].result # "Panic"

\* the part of C8 that the code does satisfy: the cursor stays on the tape
C8_CursorInBounds == machine["direct"].cursor \in 0..(TapeLen - 1)

(***************************************************************************)
(* C9: on a tape of length L, executing MoveRight(n) from cursor c yields  *)
(* cursor (c + n) mod L and executing MoveLeft(n) yields (c - n) mod L,    *)
(* for every c in [0, L) and every n >= 0, n > L included.                 *)
(***************************************************************************)
C9_MoveStep ==
    /\ Executing("CursorRight") =>
           /\ state'["direct"].result = "Running"
           /\ machine'["direct"].cursor =
                  (machine["direct"].cursor + Current("direct").val) % TapeLen
    /\ Executing("CursorLeft") =>
           /\ state'["direct"].result = "Running"
           /\ machine'["direct"].cursor =
                  (machine["direct"].cursor - Current("direct").val) % TapeLen

C9_MoveIsModular == [][C9_MoveStep]_vars

(***************************************************************************)
(* C10: Increment(n) and Decrement(n) change the byte v at the cursor to   *)
(* (v + n) mod 256 and (v - n) mod 256, for every v and n in 0..255;       *)
(* 255 + 1 gives 0 and 0 - 1 gives 255; the step does not panic.           *)
(***************************************************************************)
C10_CellStep ==
    LET v == Cell(machine["direct"])
        n == Current("direct").val
        after == Cell(machine'["direct"])
    IN  /\ Executing("Increment") =>
               /\ state'["direct"].result = "Running"
               /\ after \in Bytes
               /\ after = IF v + n > 255 THEN v + n - 256 ELSE v + n
               /\ (v = 255 /\ n = 1) => after = 0
        /\ Executing("Decrement") =>
               /\ state'["direct"].result = "Running"
               /\ after \in Bytes
               /\ after = IF v < n THEN v - n + 256 ELSE v - n
               /\ (v = 0 /\ n = 1) => after = 255

C10_CellArithmeticWraps == [][C10_CellStep]_vars

\* Decrement(200) has been executed on a cell that held a smaller byte
C10_Witness ==
    /\ state["direct"].result = "Running"
    /\ state["direct"].commands = <<Decrement(200)>>
    /\ state["direct"].program_counter = 1
    /\ Cell(machine["direct"]) = 66

(***************************************************************************)
(* The loop structure of the token sequence being run, and the skip the    *)
(* run loop is in: the LoopStart that began it is the one pushed at depth  *)
(* skip_loop_count of the loop stack.                                      *)
(***************************************************************************)
\* the token sequence as a bracket text
KindText(commands) ==
    [i \in 1..Len(commands) |->
        IF commands[i].kind = "LoopStart" THEN "["
        ELSE IF commands[i].kind = "LoopEnd" THEN "]" ELSE "x"]

\* the run loop is at a token (it has not returned and is not past the end)
AtToken ==
    /\ state["direct"].result = "Running"
    /\ state["direct"].program_counter < Len(state["direct"].commands)

Skipping == AtToken /\ state["direct"].skip_flag

\* program counter of the LoopStart whose zero test began the skip
SkipOrigin == state["direct"].loop_stack[state["direct"].skip_loop_count + 1]

(***************************************************************************)
(* C11: when run reaches a LoopStart while the byte at the cursor is zero, *)
(* no token of the loop body up to the matching LoopEnd has any effect on  *)
(* tape, cursor, input or output, nested loops included, and execution     *)
(* continues with the token after the matching LoopEnd (not after an inner *)
(* one); when the byte is nonzero, execution falls through to the next     *)
(* token.                                                                  *)
(***************************************************************************)
C11_SkipStep ==
    LET st == state["direct"]
        pc == st.program_counter
    IN  /\ (Executing("LoopStart") /\ Cell(machine["direct"]) = 0) =>
               /\ state'["direct"].result = "Running"
               /\ state'["direct"].skip_flag
               /\ state'["direct"].program_counter = pc + 1
               /\ state'["direct"].skip_loop_count = Len(st.loop_stack)
               /\ state'["direct"].loop_stack = Append(st.loop_stack, pc)
               /\ machine' = machine
        /\ (Executing("LoopStart") /\ Cell(machine["direct"]) # 0) =>
               /\ state'["direct"].result = "Running"
               /\ ~state'["direct"].skip_flag
               /\ state'["direct"].program_counter = pc + 1
               /\ machine' = machine
        /\ Skipping =>
               /\ Len(st.loop_stack) > st.skip_loop_count
               /\ SkipOrigin < pc
               /\ st.commands[SkipOrigin + 1].kind = "LoopStart"
               /\ \A j \in (SkipOrigin + 2)..pc :
                      ~Matches(KindText(st.commands), SkipOrigin + 1, j)
               /\ machine' = machine
               /\ state'["direct"].result = "Running"
               /\ state'["direct"].program_counter = pc + 1
               /\ state'["direct"].skip_flag <=>
                      ~Matches(KindText(st.commands), SkipOrigin + 1, pc + 1)
               /\ state'["direct"].skip_flag =>
                      /\ state'["direct"].skip_loop_count = st.skip_loop_count
                      /\ Len(state'["direct"].loop_stack) > st.skip_loop_count
                      /\ state'["direct"].loop_stack[st.skip_loop_count + 1] = SkipOrigin

C11_ZeroLoopIsSkipped == [][C11_SkipStep]_vars

\* the loop of "[[.]]." was entered on a zero cell and run is now at the
\* token after its LoopEnd, nothing written
C11_Witness ==
    /\ AtToken
    /\ ~state["direct"].skip_flag
    /\ KindText(state["direct"].commands) = <<"[", "[", "x", "]", "]", "x">>
    /\ state["direct"].commands[3] = PrintChar
    /\ state["direct"].program_counter = 5
    /\ machine["direct"].output = <<>>
    /\ Cell(machine["direct"]) = 0

\* the LoopEnd the run loop is at has a matching LoopStart, at index i (from 1)
EndMatches(i) ==
    Matches(KindText(state["direct"].commands), i, state["direct"].program_counter + 1)

(***************************************************************************)
(* C12 as stated: when run executes a LoopEnd, a nonzero byte at the       *)
(* cursor sends the program counter back to the matching LoopStart, and a  *)
(* zero byte lets it fall through to the token following the LoopEnd.      *)
(***************************************************************************)
C12_TestStep ==
    \A i \in 1..Len(state["direct"].commands) :
        (Executing("LoopEnd") /\ EndMatches(i)) =>
            /\ state'["direct"].result = "Running"
            /\ state'["direct"].program_counter =
                   IF Cell(machine["direct"]) # 0
                   THEN i - 1
                   ELSE state["direct"].program_counter + 1

C12_LoopEndTestsByte == [][C12_TestStep]_vars

(***************************************************************************)
(* C12 as the code has it: an executed LoopEnd sends the program counter   *)
(* back to the matching LoopStart whatever the byte at the cursor, pops    *)
(* that LoopStart from the loop stack and changes nothing else; the byte   *)
(* is tested by the LoopStart, where a nonzero byte re-enters the body and *)
(* a zero byte skips it (C11), leaving the loop after the LoopEnd.         *)
(***************************************************************************)
C12_BackStep ==
    \A i \in 1..Len(state["direct"].commands) :
        (Executing("LoopEnd") /\ EndMatches(i)) =>
            /\ state'["direct"].result = "Running"
            /\ state'["direct"].program_counter = i - 1
            /\ ~state'["direct"].skip_flag
            /\ state["direct"].loop_stack = Append(state'["direct"].loop_stack, i - 1)
            /\ machine' = machine

C12_LoopEndGoesBack == [][C12_BackStep]_vars

\* the LoopEnd of "[.-]" was executed on a byte that the body had brought
\* to zero, and run is at the LoopStart again
C12_Witness ==
    /\ AtToken
    /\ ~state["direct"].skip_flag
    /\ state["direct"].commands = <<LoopStart(0), PrintChar, Decrement(1), LoopEnd(0)>>
    /\ state["direct"].program_counter = 0
    /\ machine["direct"].output = <<1>>
    /\ Cell(machine["direct"]) = 0

(***************************************************************************)
(* C13: each executed Output token writes exactly one byte, the byte at    *)
(* the cursor at that moment, to the output stream, so that the stream     *)
(* after a run is what was there before followed by those bytes in         *)
(* execution order; Output tokens in a skipped loop body write nothing.    *)
(* (A write that fails ends the run with an error and writes nothing.)     *)
(***************************************************************************)
C13_PrintStep ==
    LET m == machine["direct"]
    IN  /\ (Executing("PrintChar") /\ state'["direct"].result = "Running") =>
               machine'["direct"].output = Append(m.output, Cell(m))
        /\ ~Executing("PrintChar") => machine'["direct"].output = m.output

C13_OutputIsBytesPrinted == [][C13_PrintStep]_vars

(***************************************************************************)
(* C14: each executed Input token consumes exactly the next unread byte of *)
(* the input stream and stores it in the cell at the cursor; at end of     *)
(* stream run returns an error instead, the cell at the cursor keeps its   *)
(* value and no later token is executed.                                   *)
(***************************************************************************)
C14_InputStep ==
    LET m  == machine["direct"]
        st == state["direct"]
    IN  /\ (Executing("InputChar") /\ m.input # <<>>) =>
               /\ state'["direct"] = Advance(st)
               /\ machine'["direct"] =
                      [m EXCEPT !.input = Tail(m.input),
                                !.memory[m.cursor + 1] = Head(m.input)]
        /\ (Executing("InputChar") /\ m.input = <<>>) =>
               /\ state'["direct"].result = "IoError"
               /\ machine' = machine
        /\ ~Executing("InputChar") => machine'["direct"].input = m.input
        /\ st.result = "IoError" => (machine' = machine /\ state' = state)

C14_InputReadsOneByteOrFails == [][C14_InputStep]_vars

\* ".," was run with nothing to read on a cell holding 255: the byte was
\* written, then run returned the error and the cell still holds 255
C14_Witness ==
    /\ state["direct"].result = "IoError"
    /\ machine["direct"].input = <<>>
    /\ machine["direct"].output = <<255>>
    /\ machine["direct"].room > 0
    /\ Cell(machine["direct"]) = 255

(***************************************************************************)
(* C15: machine state persists across sequential run calls on one machine: *)
(* at the start of each run the tape and the cursor are as the previous    *)
(* run left them (a zero tape and cursor 0 only before the first run),     *)
(* while the program counter starts at 0 of the new token sequence.        *)
(***************************************************************************)
C15_RunStep ==
    LET m == machine["direct"]
    IN  /\ runs = 0 =>
               /\ m.cursor = 0
               /\ \A i \in 1..Len(m.memory) : m.memory[i] = 0
        /\ Returned =>
               /\ machine'["direct"].memory = m.memory
               /\ machine'["direct"].cursor = m.cursor
               /\ \/ state' = state
                  \/ /\ state'["direct"].result = "Running"
                     /\ state'["direct"].program_counter = 0
                     /\ state'["direct"].loop_stack = <<>>
                     /\ ~state'["direct"].skip_flag
                     /\ runs' = runs + 1

C15_StatePersistsAcrossRuns == [][C15_RunStep]_vars

\* a second run is at its first token on the tape and cursor the first
\* run (of ">+") left
C15_Witness ==
    /\ runs = 2
    /\ AtToken
    /\ state["direct"].program_counter = 0
    /\ machine["direct"].cursor = 1
    /\ Cell(machine["direct"]) = 1

(***************************************************************************)
(* C16: new rejects capacity 0: no machine with a tape of length zero is   *)
(* ever constructed, so no run executes against a tape of length 0.        *)
(***************************************************************************)
C16_NoZeroLengthTape == TapeLen > 0

(***************************************************************************)
(* C17: running the tokens of "[-]" terminates for every initial value     *)
(* 0..255 of the cell at the cursor, with that cell 0, the cursor          *)
(* unchanged and every other cell unchanged.                               *)
(***************************************************************************)
C17_OthersUnchanged ==
    \A i \in 1..TapeLen :
        i # machine["direct"].cursor + 1 => machine["direct"].memory[i] = i

C17_ClearedWhenDone ==
    /\ state["direct"].result \in {"Idle", "Running", "Ok"}
    /\ state["direct"].result = "Ok" => Cell(machine["direct"]) = 0

C17_ClearTerminatesAtZero ==
    /\ [](C17_OthersUnchanged /\ C17_ClearedWhenDone)
    /\ [][machine'["direct"].cursor = machine["direct"].cursor]_vars
    /\ <>(state["direct"].result = "Ok")

\* run has returned Ok from "[-]" with the cursor on the second cell
C17_Witness ==
    /\ runs = 1
    /\ state["direct"].result = "Ok"
    /\ machine["direct"].memory = <<1, 0, 3>>
    /\ machine["direct"].cursor = 1

(***************************************************************************)
(* C18: when run reaches a LoopEnd token that has no open LoopStart before *)
(* it in the token sequence (as in the tokens of "[]]"), run returns the   *)
(* error LoopNotClosed carrying the program counter of that LoopEnd, not   *)
(* Ok.                                                                     *)
(***************************************************************************)
C18_UnopenedStep ==
    LET st == state["direct"]
    IN  (/\ AtToken
         /\ st.commands[st.program_counter + 1].kind = "LoopEnd"
         /\ UnmatchedEnd(KindText(st.commands), st.program_counter + 1)) =>
            /\ state'["direct"].result = "LoopNotClosed"
            /\ state'["direct"].program_counter = st.program_counter
            /\ machine' = machine

C18_UnopenedLoopEndIsError == [][C18_UnopenedStep]_vars

\* run has returned LoopNotClosed(2): the sequence began "[]]" and its loop
\* was passed on a zero cell
C18_Witness ==
    /\ state["direct"].result = "LoopNotClosed"
    /\ state["direct"].program_counter = 2
    /\ machine["direct"].output = <<>>

(***************************************************************************)
(* C19: parse maps characters to tokens one to one and in order: on        *)
(* success there are as many tokens as characters, and token i is          *)
(* Increment(1), Decrement(1), CursorLeft(1), CursorRight(1), LoopStart,   *)
(* LoopEnd, InputChar or PrintChar for '+', '-', '<', '>', '[', ']', ','   *)
(* or '.' at position i, and NotCommand(ch) with the character itself for  *)
(* any other character.                                                    *)
(***************************************************************************)
C19_ParseIsOneToOne ==
    (parsed # NotParsed /\ parsed.ok) =>
        /\ Len(parsed.tokens) = Len(code)
        /\ \A i \in Positions(code) :
               LET ch    == code[i]
                   token == parsed.tokens[i]
               IN  /\ ch = "+" => token = Increment(1)
                   /\ ch = "-" => token = Decrement(1)
                   /\ ch = "<" => token = CursorLeft(1)
                   /\ ch = ">" => token = CursorRight(1)
                   /\ ch = "[" => token.kind = "LoopStart"
                   /\ ch = "]" => token.kind = "LoopEnd"
                   /\ ch = "," => token = InputChar
                   /\ ch = "." => token = PrintChar
                   /\ ch \notin Commands => token = NotCommand(ch)

\* "[x<]" has been parsed
C19_Witness ==
    /\ code = <<"[", "x", "<", "]">>
    /\ parsed # NotParsed
    /\ parsed.ok

(***************************************************************************)
(* The maximal runs of a source text, defined on the text itself: a run is *)
(* a stretch of '+'/'-' characters, or of '<'/'>' characters, that cannot  *)
(* be extended on either side.                                             *)
(***************************************************************************)
ClassOf(ch) ==
    IF ch \in {"+", "-"} THEN "sum" ELSE IF ch \in {"<", ">"} THEN "move" ELSE "other"

\* last position of the maximal run that starts at i
RunEnd(text, i) ==
    CHOOSE j \in i..Len(text) :
        /\ \A k \in i..j : ClassOf(text[k]) = ClassOf(text[i])
        /\ j = Len(text) \/ ClassOf(text[j + 1]) # ClassOf(text[i])

\* occurrences of up minus occurrences of down among positions i..j
Net(text, i, j, up, down) ==
    Cardinality({k \in i..j : text[k] = up}) - Cardinality({k \in i..j : text[k] = down})

\* the token a run with the given net value stands for: none when it is zero
NetToken(class, net, count) ==
    IF net = 0 THEN <<>>
    ELSE IF class = "sum"
         THEN IF net > 0 THEN <<Increment(count)>> ELSE <<Decrement(count)>>
         ELSE IF net > 0 THEN <<CursorRight(count)>> ELSE <<CursorLeft(count)>>

\* the other characters' tokens, a loop token without its partner's index
PlainToken(ch) ==
    CASE ch = "[" -> LoopStart(0)
      [] ch = "]" -> LoopEnd(0)
      [] ch = "," -> InputChar
      [] ch = "." -> PrintChar
      [] OTHER    -> NotCommand(ch)

\* the text from position i on with each maximal run replaced by its net
\* token; the count of a sum token is the net value itself, or that value
\* as a u8 when `narrow`
RECURSIVE Merged(_, _, _)
Merged(text, i, narrow) ==
    IF i > Len(text) THEN <<>>
    ELSE IF ClassOf(text[i]) = "other"
         THEN <<PlainToken(text[i])>> \o Merged(text, i + 1, narrow)
         ELSE LET j     == RunEnd(text, i)
                  class == ClassOf(text[i])
                  net   == IF class = "sum" THEN Net(text, i, j, "+", "-")
                                            ELSE Net(text, i, j, ">", "<")
                  size  == IF net < 0 THEN -net ELSE net
                  count == IF class = "sum" /\ narrow THEN size % ByteMod ELSE size
              IN  NetToken(class, net, count) \o Merged(text, j + 1, narrow)

\* a token sequence with the partner indices of its loop tokens set to 0
Unresolved(tokens) ==
    [i \in 1..Len(tokens) |->
        IF tokens[i].kind \in {"LoopStart", "LoopEnd"}
        THEN [tokens[i] EXCEPT !.val = 0] ELSE tokens[i]]

Compressed == compressed # NotParsed /\ compressed.ok

(***************************************************************************)
(* C20 as stated: parse_compress replaces each maximal run of consecutive  *)
(* '+'/'-' by one Increment(s) for a positive net sum s, one Decrement(-s) *)
(* for a negative one and no token for zero; and each maximal run of       *)
(* consecutive '<'/'>' by one CursorRight(d), one CursorLeft(-d) or        *)
(* nothing for net displacement d.                                         *)
(***************************************************************************)
C20_RunsBecomeNetTokens ==
    Compressed => Unresolved(compressed.tokens) = Merged(code, 1, FALSE)

(***************************************************************************)
(* C20 with the count as the code computes it: the count of the Increment  *)
(* or Decrement is the net sum taken as a u8, that is modulo 256 (a token  *)
(* with count 0 for a nonzero sum that is a multiple of 256).              *)
(***************************************************************************)
C20_RunsBecomeNetTokensMod256 ==
    Compressed => Unresolved(compressed.tokens) = Merged(code, 1, TRUE)

\* a run of 257 '+' has been compressed to Increment(1)
C20_Witness ==
    /\ Compressed
    /\ Len(code) = ByteMod + 1
    /\ code[1] = "+"
    /\ compressed.tokens = <<Increment(1)>>

(***************************************************************************)
(* A sequence cut at marked positions: `cuts` is a sequence of booleans as *)
(* long as the sequence, TRUE where it is cut.                             *)
(***************************************************************************)
CutCount(cuts) == Cardinality({p \in 1..Len(cuts) : cuts[p]})

\* position of the k-th cut; 0 for k = 0 and Len(cuts) + 1 past the last cut
NthCut(cuts, k) ==
    IF k = 0 THEN 0
    ELSE IF k > CutCount(cuts) THEN Len(cuts) + 1
    ELSE CHOOSE p \in 1..Len(cuts) :
             cuts[p] /\ Cardinality({q \in 1..p : cuts[q]}) = k

\* the elements between cut k - 1 and cut k
Piece(seq, cuts, k) == SubSeq(seq, NthCut(cuts, k - 1) + 1, NthCut(cuts, k) - 1)

\* where a source text has a character that is neither '+'/'-' nor '<'/'>',
\* and where a token sequence has a token that is not an operation
TextCuts(text)    == [i \in 1..Len(text) |-> ClassOf(text[i]) = "other"]
TokenCuts(tokens) ==
    [i \in 1..Len(tokens) |->
        tokens[i].kind \notin {"Increment", "Decrement", "CursorLeft", "CursorRight"}]

(***************************************************************************)
(* C21: parse_compress never merges operations across an interrupting      *)
(* token.  Every token that is not an operation appears in the output, in  *)
(* its original relative order ("+x+" gives Increment(1), NotCommand('x'), *)
(* Increment(1)), and the operations between two such tokens are those of  *)
(* the source characters between them, a run of the other class of         *)
(* operation being a boundary as well.                                     *)
(***************************************************************************)
C21_NoMergeAcrossBoundary ==
    Compressed =>
        LET out  == Unresolved(compressed.tokens)
            from == TextCuts(code)
            to   == TokenCuts(out)
        IN  /\ CutCount(to) = CutCount(from)
            /\ \A k \in 1..CutCount(from) :
                   out[NthCut(to, k)] = PlainToken(code[NthCut(from, k)])
            /\ \A k \in 1..(CutCount(from) + 1) :
                   Piece(out, to, k) = Merged(Piece(code, from, k), 1, TRUE)

\* "+x+" has been compressed
C21_Witness ==
    /\ Compressed
    /\ code = <<"+", "x", "+">>
    /\ compressed.tokens = <<Increment(1), NotCommand("x"), Increment(1)>>

(***************************************************************************)
(* C22: running the tokens of ".+[.+]" on a machine whose current cell is  *)
(* 0 terminates normally after writing exactly 256 bytes, the values       *)
(* 0, 1, ..., 255 in order: the cell wraps from 255 to 0, which ends the   *)
(* loop.                                                                   *)
(***************************************************************************)
ByteTable == [i \in 1..ByteMod |-> i - 1]

C22_WritesByteTable ==
    LET written == machine["direct"].output
    IN  /\ state["direct"].result \in {"Idle", "Running", "Ok"}
        /\ Len(written) <= ByteMod
        /\ written = SubSeq(ByteTable, 1, Len(written))
        /\ state["direct"].result = "Ok" => written = ByteTable

C22_ByteTableTerminates ==
    /\ []C22_WritesByteTable
    /\ <>(state["direct"].result = "Ok")

\* run has returned Ok with the 256 bytes written and the cell back at 0
C22_Witness ==
    /\ runs = 1
    /\ state["direct"].result = "Ok"
    /\ Len(machine["direct"].output) = ByteMod
    /\ machine["direct"].output[ByteMod] = ByteMod - 1
    /\ Cell(machine["direct"]) = 0

(***************************************************************************)
(* C23: for every token sequence produced by a successful parse or         *)
(* parse_compress, the execution with the loop stack and the skipping flag *)
(* and the execution with the precomputed jump targets alone are           *)
(* observably equivalent: one returns exactly when the other does, with    *)
(* the same outcome, output, tape, cursor and remaining input, and until   *)
(* then the bytes one has written or read are a prefix of the other's.     *)
(***************************************************************************)
IsPrefix(s, t) == Len(s) <= Len(t) /\ s = SubSeq(t, 1, Len(s))

IsSuffix(s, t) == Len(s) <= Len(t) /\ s = SubSeq(t, Len(t) - Len(s) + 1, Len(t))

C23_SameObservations ==
    /\ \/ IsPrefix(machine["stack"].output, machine["jump"].output)
       \/ IsPrefix(machine["jump"].output, machine["stack"].output)
    /\ \/ IsSuffix(machine["stack"].input, machine["jump"].input)
       \/ IsSuffix(machine["jump"].input, machine["stack"].input)
    /\ (Done("stack") /\ Done("jump")) => Observed("stack") = Observed("jump")

C23_GenerationsEquivalent ==
    /\ []C23_SameObservations
    /\ Done("stack") ~> Done("jump")
    /\ Done("jump") ~> Done("stack")

\* both machines have returned Ok from "[>[]]": the outer loop was entered
\* and the inner one passed over on the zero cell to the right
C23_Witness ==
    /\ code = <<"[", ">", "[", "]", "]">>
    /\ Done("stack") /\ Done("jump")
    /\ state["stack"].result = "Ok"
    /\ machine["jump"].cursor = 1
    /\ machine["jump"].memory[1] = 1

(***************************************************************************)
(* The bracket an unbalanced source is reported for, by the policy of      *)
(* parse: its leftmost unmatched "]", or its innermost unmatched "[" when  *)
(* it has no unmatched "]".                                                *)
(***************************************************************************)
Offending(text, j) ==
    \/ FirstUnmatchedEnd(text, j)
    \/ /\ ~\E k \in Positions(text) : UnmatchedEnd(text, k)
       /\ InnermostUnmatchedStart(text, j)

\* index that the token of the bracket at position j would have in the
\* compressed sequence: the number of tokens the text before it compresses to
CompressedIndex(text, j) == Len(Merged(SubSeq(text, 1, j - 1), 1, TRUE))

(***************************************************************************)
(* C24 as stated: for a source with unbalanced brackets, parse_compress    *)
(* fails with the unclosed-loop error whose index is the position of the   *)
(* offending bracket token in the compressed token sequence.               *)
(***************************************************************************)
C24_ErrorIndexInCompressed ==
    (compressed # NotParsed /\ ~Balanced(code)) =>
        \A j \in Positions(code) :
            Offending(code, j) => compressed = LoopNotClosed(CompressedIndex(code, j))

(***************************************************************************)
(* C24 amended: for a source with unbalanced brackets, parse_compress      *)
(* fails with the unclosed-loop error whose index is the position of the   *)
(* offending bracket in the uncompressed sequence, one token per           *)
(* character: the error is that of parse.                                  *)
(***************************************************************************)
C24_ErrorIndexInSource ==
    (compressed # NotParsed /\ ~Balanced(code)) =>
        \A j \in Positions(code) :
            Offending(code, j) => compressed = LoopNotClosed(j - 1)

\* parse_compress has failed on a source in which a run that compresses
\* comes before the offending bracket
C24_Witness ==
    /\ compressed # NotParsed
    /\ \E j \in Positions(code) :
           /\ Offending(code, j)
           /\ CompressedIndex(code, j) < j - 1
           /\ compressed = LoopNotClosed(j - 1)

(***************************************************************************)
(* C25: in every sequence returned by a successful parse_compress, each    *)
(* LoopStart and LoopEnd carries the index of its matching partner within  *)
(* the compressed sequence itself, tokens[tokens[i].target].target = i:    *)
(* the Hello World source gives LoopStart(12) at index 1 and LoopEnd(1) at *)
(* index 12.                                                               *)
(***************************************************************************)
C25_TargetsAreCompressedPartners ==
    Compressed =>
        LET tokens == compressed.tokens
            text   == KindText(tokens)
        IN  \A i \in 1..Len(tokens) :
                LET t == tokens[i].val + 1
                IN  /\ tokens[i].kind = "LoopStart" =>
                          /\ t \in (i + 1)..Len(tokens)
                          /\ Matches(text, i, t)
                          /\ tokens[t] = LoopEnd(i - 1)
                    /\ tokens[i].kind = "LoopEnd" =>
                          /\ t \in 1..(i - 1)
                          /\ Matches(text, t, i)
                          /\ tokens[t] = LoopStart(i - 1)

\* the Hello World source has been compressed
C25_Witness ==
    /\ Compressed
    /\ code = HelloWorld
    /\ compressed.tokens[2] = LoopStart(12)
    /\ compressed.tokens[13] = LoopEnd(1)
    /\ Len(compressed.tokens) = 43

(***************************************************************************)
(* C26: for a run of consecutive '+'/'-' whose net sum s has magnitude 256 *)
(* or more, the token emitted by parse_compress, when executed, changes    *)
(* the cell at the cursor by exactly s mod 256, the same as executing the  *)
(* uncompressed run one step at a time.                                    *)
(***************************************************************************)
RunSum == Net(code, 1, Len(code), "+", "-")

LongRun == RunSum >= ByteMod \/ -RunSum >= ByteMod

\* n modulo 256, for a negative n as well
ModByte(n) == ((n % ByteMod) + ByteMod) % ByteMod

\* the step in which the machine given the compressed tokens executes the
\* one token they consist of
C26_TokenStep ==
    LET st == state["parse_compress"]
    IN  (/\ LongRun
         /\ st.result = "Running"
         /\ st.program_counter = 0
         /\ state'["parse_compress"].program_counter = 1) =>
            /\ Len(st.commands) = 1
            /\ Cell(machine'["parse_compress"]) =
                   ModByte(Cell(machine["parse_compress"]) + RunSum)
            /\ machine'["parse_compress"].cursor = machine["parse_compress"].cursor

C26_SameAsStepByStep ==
    (LongRun /\ Done("parse") /\ Done("parse_compress")) =>
        /\ Observed("parse_compress") = Observed("parse")
        /\ state["parse"].result = "Ok"

C26_LongRunChangesCellModulo == [](C26_SameAsStepByStep) /\ [][C26_TokenStep]_vars

\* 257 '+' have been run both ways on a cell that held 255: it holds 0
C26_Witness ==
    /\ Len(code) = ByteMod + 1
    /\ code[1] = "+"
    /\ Done("parse") /\ Done("parse_compress")
    /\ state["parse_compress"].commands = <<>>
    /\ compressed.tokens = <<Increment(1)>>
    /\ Len(parsed.tokens) = ByteMod + 1
    /\ machine["parse_compress"].memory[1] = 0
    /\ machine["parse"].memory[1] = 0

(***************************************************************************)
(* The loops open at a program counter: the program counters of the        *)
(* LoopStart tokens that come before it and whose LoopEnd has not been     *)
(* passed, in ascending order, which is outermost first.                   *)
(***************************************************************************)
OpenSet(text, pc) ==
    {i - 1 : i \in {k \in Positions(text) :
                      k <= pc /\ \E j \in Positions(text) : Matches(text, k, j) /\ pc < j}}

Ascending(S) ==
    CHOOSE seq \in [1..Cardinality(S) -> S] :
        \A a, b \in 1..Cardinality(S) : a < b => seq[a] < seq[b]

OpenLoops(text, pc) == Ascending(OpenSet(text, pc))

(***************************************************************************)
(* C27: during run on a bracket-balanced token sequence, whenever the      *)
(* token at the program counter is about to be executed, the loop stack    *)
(* holds exactly the indices of the LoopStart tokens whose loops enclose   *)
(* the program counter, outermost first; when the loop of run is left at   *)
(* the end of the sequence, to return Ok, the loop stack is empty and the  *)
(* skipping flag is false.                                                 *)
(***************************************************************************)
C27_StackHoldsOpenLoops ==
    LET st   == state["direct"]
        text == KindText(st.commands)
    IN  (st.result = "Running" /\ Balanced(text)) =>
            /\ st.loop_stack = OpenLoops(text, st.program_counter)
            /\ st.program_counter = Len(st.commands) =>
                   st.loop_stack = <<>> /\ ~st.skip_flag

\* the body of a loop nested in a loop is being executed
C27_Witness ==
    LET st == state["direct"]
    IN  /\ st.result = "Running"
        /\ Balanced(KindText(st.commands))
        /\ st.loop_stack = <<0, 1>>
        /\ st.program_counter = 2
        /\ st.commands[3].kind = "Decrement"
        /\ ~st.skip_flag

(***************************************************************************)
(* C28: for bracket-balanced sources A and B, running parse(A) and then    *)
(* parse(B) on one machine leaves the same tape, cursor, consumed input    *)
(* and output as running parse(A followed by B) once on a machine in the   *)
(* same initial state, provided the run of A returns Ok.  Until both have  *)
(* returned, the bytes one has written or read are a prefix of the         *)
(* other's.                                                                *)
(***************************************************************************)
C28_BatchIsConcatenation ==
    /\ \/ IsPrefix(machine["batch"].output, machine["joined"].output)
       \/ IsPrefix(machine["joined"].output, machine["batch"].output)
    /\ \/ IsSuffix(machine["batch"].input, machine["joined"].input)
       \/ IsSuffix(machine["joined"].input, machine["batch"].input)
    /\ (runs = 2 /\ Done("batch") /\ Done("joined")) =>
           Observed("batch") = Observed("joined")

\* "," then "[,]": the loop of the second run is entered on the byte the
\* first run read, and left on the 0 it reads itself
C28_Witness ==
    /\ code = << <<",">>, <<"[", ",", "]">> >>
    /\ Balanced(code[1]) /\ Balanced(code[2])
    /\ runs = 2
    /\ Done("batch") /\ Done("joined")
    /\ state["batch"].result = "Ok"
    /\ machine["batch"].memory[1] = 0
    /\ machine["batch"].input = <<>>

(***************************************************************************)
(* C29: each executed token changes only its own part of the machine       *)
(* state.  NotCommand, LoopStart, LoopEnd and PrintChar leave the tape and *)
(* the cursor unchanged; Increment, Decrement and InputChar change at most *)
(* the byte at the cursor, no other cell and not the cursor; CursorLeft    *)
(* and CursorRight change only the cursor and no cell; the tape length     *)
(* never changes.  Only InputChar takes from the input and only PrintChar  *)
(* adds to the output.                                                     *)
(***************************************************************************)
C29_TokenStep ==
    LET m     == machine["direct"]
        after == machine'["direct"]
        kind  == Current("direct").kind
    IN  AtToken =>
            /\ Len(after.memory) = Len(m.memory)
            /\ kind \in {"NotCommand", "LoopStart", "LoopEnd", "PrintChar"} =>
                   after.memory = m.memory /\ after.cursor = m.cursor
            /\ kind \in {"Increment", "Decrement", "InputChar"} =>
                   /\ after.cursor = m.cursor
                   /\ \A i \in 1..Len(m.memory) :
                          i # m.cursor + 1 => after.memory[i] = m.memory[i]
            /\ kind \in {"CursorLeft", "CursorRight"} => after.memory = m.memory
            /\ kind # "InputChar" => after.input = m.input
            /\ kind # "PrintChar" => after.output = m.output

C29_TokensKeepTheirFrame == [][C29_TokenStep]_vars

\* a cell other than the first has been incremented after a move to it
C29_Witness ==
    /\ state["direct"].result = "Running"
    /\ state["direct"].program_counter = 2
    /\ state["direct"].commands = <<CursorRight(1), Increment(1)>>
    /\ machine["direct"].cursor = 1
    /\ machine["direct"].memory[2] = 1
====
